---- MODULE Spec2Model ----
(***************************************************************************)
(* Stock bookkeeping of the sound-equipment inventory application:         *)
(* the Equipments, Events, EquipmentEvent and DamagedEquipment tables and  *)
(* the API route handlers that change them.                                *)
(***************************************************************************)
EXTENDS Integers, Sequences, FiniteSets, TLC

(* ---------------- bounds ---------------- *)
MaxStock == 2
MaxQty == 2

EquipmentIds == {"e1", "e2"}
(* a list long enough to name every equipment, and one of them twice *)
MaxItems == Cardinality(EquipmentIds)
EventIds == {"v1", "v2"}
DamagedIds == {"d1"}
Titles == {"", "a"}
Procs == {"p1", "p2"}

(* ---------------- state ---------------- *)
VARIABLES
    equipments,        \* table Equipments: id -> [stock]
    events,            \* table Events: id -> [title, status, reportGenerated]
    equipmentEvent,    \* table EquipmentEvent: set of [eventId, equipmentId, quantity]
    damagedEquipment,  \* table DamagedEquipment: id -> [equipmentId, quantity, repairStatus, repairedAt]
    req,               \* the request handled last
    res,               \* the HTTP status answered to it
    pre,               \* the tables as they were before that request
    tx,                \* the interactive transactions in flight, per connection
    users,             \* table Users: id -> [email, password, role]
    jar,               \* the client's jwt-access-token cookie
    uploads            \* the files in public/uploads

db == <<equipments, events, equipmentEvent, damagedEquipment>>
hist == <<req, res, pre>>
auth == <<users, jar>>
vars ==
    <<equipments, events, equipmentEvent, damagedEquipment, req, res, pre, tx,
      users, jar, uploads>>

Snapshot ==
    [equipments |-> equipments, events |-> events,
     equipmentEvent |-> equipmentEvent, damagedEquipment |-> damagedEquipment]

EventStatus == {"upcoming", "ongoing", "completed"}
RepairStatus == {"pending", "in_progress", "completed"}
Undefined == "undefined"

(* an equipments list of a request body: items {equipmentId, quantity} *)
Items == [equipmentId : EquipmentIds, quantity : 1..MaxQty]
RECURSIVE SeqsUpTo(_, _)
SeqsUpTo(S, n) ==
    IF n = 0 THEN {<<>>}
    ELSE LET shorter == SeqsUpTo(S, n - 1)
         IN shorter \cup {Append(s, x) : s \in {t \in shorter : Len(t) = n - 1}, x \in S}
(* the lists a request may carry: the schema-valid ones and, for the schema *)
(* to reject, the one-item lists with quantity 0                            *)
EquipmentLists ==
    SeqsUpTo(Items, MaxItems)
    \cup {<<[equipmentId |-> e, quantity |-> 0]>> : e \in EquipmentIds}

(* sum of the quantities of a set of EquipmentEvent rows *)
RECURSIVE SumQuantity(_)
SumQuantity(rows) ==
    IF rows = {} THEN 0
    ELSE LET r == CHOOSE r \in rows : TRUE
         IN r.quantity + SumQuantity(rows \ {r})

RowsOfEvent(ee, v) == {r \in ee : r.eventId = v}
Reserved(ee, e) == SumQuantity({r \in ee : r.equipmentId = e})
ReservedBy(ee, v, e) == SumQuantity({r \in ee : r.equipmentId = e /\ r.eventId = v})

(* an unused id stands for the generated cuid of a new row *)
FreshId(ids, used) == CHOOSE i \in ids \ used : TRUE

(* ---------------- validation schemas ---------------- *)
(* EventSchema: title/description/date/location non-empty (one field stands *)
(* for the four), status optional enum, equipments optional array of        *)
(* {equipmentId: string, quantity: int >= 1}                                *)
EventSchema(body) ==
    /\ body.title # ""
    /\ body.hasEquipments =>
          \A i \in 1..Len(body.equipments) : body.equipments[i].quantity >= 1

(* ---------------- steps inside the event transactions ---------------- *)
(* mutant: the availability check stops after the first item *)
MutValidateStock(eqs, items, i) ==
    IF i > Len(items) THEN TRUE
    ELSE /\ items[i].equipmentId \in DOMAIN eqs
         /\ ~(eqs[items[i].equipmentId].stock < items[i].quantity)
         /\ \A j \in (i + 1)..Len(items) : items[j].equipmentId \in DOMAIN eqs

(* the stock-availability loop: TRUE when no item makes it throw *)
RECURSIVE ValidateStock(_, _, _)
ValidateStock(eqs, items, i) ==
    IF i > Len(items) THEN TRUE
    ELSE /\ items[i].equipmentId \in DOMAIN eqs
         /\ ~(eqs[items[i].equipmentId].stock < items[i].quantity)
         /\ ValidateStock(eqs, items, i + 1)

(* mutant: quantity left out of the inserted rows, the column default 1 applies *)
MutNewRows(v, items) ==
    {[eventId |-> v, equipmentId |-> items[i].equipmentId, quantity |-> 1] :
        i \in 1..Len(items)}

(* tx.equipmentEvent.createMany: the rows to insert *)
NewRows(v, items) ==
    {[eventId |-> v, equipmentId |-> items[i].equipmentId,
      quantity |-> items[i].quantity] : i \in 1..Len(items)}

(* mutant: the table has no unique index *)
MutUniqueIndexOK(ee, v, items) == TRUE

(* the unique index EquipmentEvent(equipmentId, eventId): createMany throws  *)
(* when two inserted rows, or an inserted and a stored row, share the key    *)
UniqueIndexOK(ee, v, items) ==
    /\ \A i, j \in 1..Len(items) :
          i # j => items[i].equipmentId # items[j].equipmentId
    /\ \A i \in 1..Len(items) :
          ~\E r \in ee : r.eventId = v /\ r.equipmentId = items[i].equipmentId

(* mutant: every listed equipment loses the quantity of the first item *)
RECURSIVE MutDecreaseStock(_, _, _)
MutDecreaseStock(eqs, items, i) ==
    IF i > Len(items) THEN eqs
    ELSE LET e == items[i].equipmentId
         IN MutDecreaseStock([eqs EXCEPT ![e].stock = @ - items[1].quantity],
                             items, i + 1)

(* the loop of tx.equipments.update({stock: {decrement: quantity}}) *)
RECURSIVE DecreaseStock(_, _, _)
DecreaseStock(eqs, items, i) ==
    IF i > Len(items) THEN eqs
    ELSE LET e == items[i].equipmentId
         IN DecreaseStock([eqs EXCEPT ![e].stock = @ - items[i].quantity], items, i + 1)

(* mutant: the old reservations are dropped without returning their units *)
MutRestoreStock(eqs, rows) == eqs

(* the loop of tx.equipments.update({stock: {increment: quantity}}) over rows *)
RECURSIVE RestoreStock(_, _)
RestoreStock(eqs, rows) ==
    IF rows = {} THEN eqs
    ELSE LET r == CHOOSE r \in rows : TRUE
         IN RestoreStock([eqs EXCEPT ![r.equipmentId].stock = @ + r.quantity],
                         rows \ {r})

Unchanged(status) ==
    [status |-> status, equipments |-> equipments, events |-> events,
     equipmentEvent |-> equipmentEvent, damagedEquipment |-> damagedEquipment]

(* mutant: the writes made before the error stay *)
MutRollback(status, written) == [written EXCEPT !.status = status]

(* the callback of prisma.$transaction throws: the transaction is rolled   *)
(* back, none of the writes made inside it (written) stays, and the catch  *)
(* block answers with status                                               *)
Rollback(status, written) == Unchanged(status)

(* ---------------- POST /api/events ---------------- *)
EventsPOST(body) ==
    IF ~EventSchema(body) THEN Unchanged(400)
    ELSE
      LET newId == FreshId(EventIds, DOMAIN events)
          ev1 == [v \in DOMAIN events \cup {newId} |->
                    IF v = newId
                    THEN [title |-> body.title, status |-> "upcoming",
                          reportGenerated |-> FALSE]
                    ELSE events[v]]
          items == body.equipments
      IN IF body.hasEquipments /\ Len(items) > 0
         THEN IF ~ValidateStock(equipments, items, 1)
              THEN Rollback(400, [Unchanged(0) EXCEPT !.events = ev1])
              ELSE IF ~UniqueIndexOK(equipmentEvent, newId, items)
              THEN Rollback(400, [Unchanged(0) EXCEPT !.events = ev1])
              ELSE [status |-> 201,
                    equipments |-> DecreaseStock(equipments, items, 1),
                    events |-> ev1,
                    equipmentEvent |-> equipmentEvent \cup NewRows(newId, items),
                    damagedEquipment |-> damagedEquipment]
         ELSE [status |-> 201, equipments |-> equipments, events |-> ev1,
               equipmentEvent |-> equipmentEvent,
               damagedEquipment |-> damagedEquipment]

(* ---------------- PUT /api/events/[id] ---------------- *)
(* mutant: the reservations are replaced whatever the body holds *)
MutEquipmentsProvided(body) == TRUE

(* "if (validatedData.equipments !== undefined)" *)
EquipmentsProvided(body) == body.hasEquipments

EventPUT(id, body) ==
    IF ~EventSchema(body) THEN Unchanged(400)
    ELSE IF id \notin DOMAIN events THEN Unchanged(404)
    ELSE
      LET ev1 == [events EXCEPT ![id] =
                    [title |-> body.title,
                     status |-> IF body.status # Undefined THEN body.status
                                ELSE @.status,
                     reportGenerated |-> @.reportGenerated]]
          items == body.equipments
          old == {r \in equipmentEvent : r.eventId = id}
          ee1 == equipmentEvent \ old
          eq1 == RestoreStock(equipments, old)
          \* the event updated, the old rows deleted, their units returned
          written == [status |-> 0, equipments |-> eq1, events |-> ev1,
                      equipmentEvent |-> ee1,
                      damagedEquipment |-> damagedEquipment]
      IN IF ~EquipmentsProvided(body)
         THEN [status |-> 200, equipments |-> equipments, events |-> ev1,
               equipmentEvent |-> equipmentEvent,
               damagedEquipment |-> damagedEquipment]
         ELSE IF Len(items) > 0
         THEN IF ~ValidateStock(eq1, items, 1) THEN Rollback(400, written)
              ELSE IF ~UniqueIndexOK(ee1, id, items) THEN Rollback(400, written)
              ELSE [status |-> 200,
                    equipments |-> DecreaseStock(eq1, items, 1),
                    events |-> ev1,
                    equipmentEvent |-> ee1 \cup NewRows(id, items),
                    damagedEquipment |-> damagedEquipment]
         ELSE [status |-> 200, equipments |-> eq1, events |-> ev1,
               equipmentEvent |-> ee1, damagedEquipment |-> damagedEquipment]

(* mutant: the event is deleted for an id that was never checked *)
MutEventDELETE(id) ==
    [status |-> 200,
     equipments |-> RestoreStock(equipments, {r \in equipmentEvent : r.eventId = id}),
     events |-> [v \in DOMAIN events \ {id} |-> events[v]],
     equipmentEvent |-> {r \in equipmentEvent : r.eventId # id},
     damagedEquipment |-> damagedEquipment]

(* ---------------- DELETE /api/events/[id] ---------------- *)
EventDELETE(id) ==
    IF id \notin DOMAIN events THEN Unchanged(404)
    ELSE
      LET rows == {r \in equipmentEvent : r.eventId = id}
      IN [status |-> 200,
          equipments |-> RestoreStock(equipments, rows),
          events |-> [v \in DOMAIN events \ {id} |-> events[v]],
          \* ON DELETE CASCADE of EquipmentEvent.eventId
          equipmentEvent |-> equipmentEvent \ rows,
          damagedEquipment |-> damagedEquipment]

(* ---------------- DELETE /api/events?ids=... (bulk) ---------------- *)
EventsDELETE(ids) ==
    IF ids = {} THEN Unchanged(400)
    ELSE [status |-> 200,
          equipments |-> equipments,
          events |-> [v \in DOMAIN events \ ids |-> events[v]],
          \* ON DELETE CASCADE of EquipmentEvent.eventId
          equipmentEvent |-> {r \in equipmentEvent : r.eventId \notin ids},
          damagedEquipment |-> damagedEquipment]

(* ---------------- /api/equipments ---------------- *)
(* EquipmentSchema / EquipmentUpdateSchema: name and category non-empty,   *)
(* stock an optional integer >= 0. A stock is <<>> (absent) or <<n>>.      *)
(* mutant: the lower limit of stock is missing *)
MutEquipmentSchema(name, stock) == name # ""

EquipmentSchema(name, stock) ==
    /\ name # ""
    /\ stock # <<>> => stock[1] >= 0

(* POST: "const stock = stockStr ? parseInt(stockStr, 10) : 1" *)
ParseStockPOST(stockStr) == IF stockStr # <<>> THEN stockStr ELSE <<1>>

EquipmentsPOST(name, stockStr) ==
    LET stock == ParseStockPOST(stockStr)
    IN IF ~EquipmentSchema(name, stock) THEN Unchanged(400)
       ELSE
         LET newId == FreshId(EquipmentIds, DOMAIN equipments)
             \* "stock: parsed.data.stock || 1"
             stored == IF stock[1] # 0 THEN stock[1] ELSE 1
         IN [status |-> 201,
             equipments |-> [e \in DOMAIN equipments \cup {newId} |->
                               IF e = newId THEN [stock |-> stored]
                               ELSE equipments[e]],
             events |-> events, equipmentEvent |-> equipmentEvent,
             damagedEquipment |-> damagedEquipment]

(* PUT: "const stock = stockStr ? parseInt(stockStr, 10) : undefined" *)
EquipmentPUT(id, name, stock) ==
    IF ~EquipmentSchema(name, stock) THEN Unchanged(400)
    ELSE IF id \notin DOMAIN equipments THEN Unchanged(404)
    ELSE [status |-> 200,
          equipments |-> [equipments EXCEPT ![id].stock =
                            IF stock # <<>> THEN stock[1] ELSE @],
          events |-> events, equipmentEvent |-> equipmentEvent,
          damagedEquipment |-> damagedEquipment]

(* mutant: the foreign keys do not cascade *)
MutEquipmentDELETE(id) ==
    IF id \notin DOMAIN equipments THEN Unchanged(404)
    ELSE [Unchanged(200) EXCEPT
            !.equipments = [e \in DOMAIN equipments \ {id} |-> equipments[e]]]

EquipmentDELETE(id) ==
    IF id \notin DOMAIN equipments THEN Unchanged(404)
    ELSE [status |-> 200,
          equipments |-> [e \in DOMAIN equipments \ {id} |-> equipments[e]],
          events |-> events,
          \* ON DELETE CASCADE of EquipmentEvent.equipmentId
          equipmentEvent |-> {r \in equipmentEvent : r.equipmentId # id},
          \* ON DELETE CASCADE of DamagedEquipment.equipmentId
          damagedEquipment |->
              [d \in {x \in DOMAIN damagedEquipment :
                        damagedEquipment[x].equipmentId # id} |->
                 damagedEquipment[d]]]

(* ---------------- /api/damaged-equipments ---------------- *)
(* DamagedEquipmentSchema: equipmentId non-empty, quantity int >= 1 *)
DamagedEquipmentSchema(body) == body.quantity >= 1

(* mutant: a report of the whole stock is refused as well *)
MutInsufficientStock(equipment, quantity) == equipment.stock <= quantity

(* "Check if there's enough stock" *)
InsufficientStock(equipment, quantity) == equipment.stock < quantity

DamagedPOST(body) ==
    IF ~DamagedEquipmentSchema(body) THEN Unchanged(400)
    ELSE IF body.equipmentId \notin DOMAIN equipments THEN Unchanged(404)
    ELSE IF InsufficientStock(equipments[body.equipmentId], body.quantity)
    THEN Unchanged(400)
    ELSE
      LET newId == FreshId(DamagedIds, DOMAIN damagedEquipment)
      IN [status |-> 201,
          equipments |-> equipments, events |-> events,
          equipmentEvent |-> equipmentEvent,
          damagedEquipment |->
              [d \in DOMAIN damagedEquipment \cup {newId} |->
                 IF d = newId
                 THEN [equipmentId |-> body.equipmentId,
                       quantity |-> body.quantity,
                       repairStatus |-> "pending", repairedAt |-> FALSE]
                 ELSE damagedEquipment[d]]]

(* UpdateDamagedEquipmentSchema: quantity optional int >= 1 (<<>> absent), *)
(* repairStatus optional enum                                              *)
UpdateDamagedEquipmentSchema(body) ==
    body.quantity # <<>> => body.quantity[1] >= 1

(* mutant: one unit comes back whatever the record's quantity *)
MutCompleteRepair(eqs, existing) ==
    [eqs EXCEPT ![existing.equipmentId].stock = @ + 1]

(* "Restore stock back to equipment": stock incremented by existing.quantity *)
CompleteRepair(eqs, existing) ==
    [eqs EXCEPT ![existing.equipmentId].stock = @ + existing.quantity]

DamagedPUT(id, body) ==
    IF ~UpdateDamagedEquipmentSchema(body) THEN Unchanged(400)
    ELSE IF id \notin DOMAIN damagedEquipment THEN Unchanged(404)
    ELSE
      LET existing == damagedEquipment[id]
          completes == body.repairStatus = "completed"
      IN [status |-> 200,
          equipments |->
              IF completes THEN CompleteRepair(equipments, existing)
              ELSE equipments,
          events |-> events, equipmentEvent |-> equipmentEvent,
          damagedEquipment |->
              [damagedEquipment EXCEPT ![id] =
                 [equipmentId |-> existing.equipmentId,
                  quantity |-> IF body.quantity # <<>> THEN body.quantity[1]
                               ELSE existing.quantity,
                  repairStatus |-> IF body.repairStatus # Undefined
                                   THEN body.repairStatus
                                   ELSE existing.repairStatus,
                  repairedAt |-> IF completes THEN TRUE ELSE existing.repairedAt]]]

DamagedDELETE(id) ==
    IF id \notin DOMAIN damagedEquipment THEN Unchanged(404)
    ELSE [status |-> 200,
          equipments |-> equipments, events |-> events,
          equipmentEvent |-> equipmentEvent,
          damagedEquipment |->
              [d \in DOMAIN damagedEquipment \ {id} |-> damagedEquipment[d]]]

(* ---------------- requests ---------------- *)
ValidTitles == Titles \ {""}
EventBodies ==
    [title : Titles, status : {Undefined}, hasEquipments : {FALSE},
     equipments : {<<>>}]
    \cup [title : ValidTitles, status : {Undefined}, hasEquipments : {TRUE},
          equipments : EquipmentLists]
EventUpdateBodies ==
    [title : Titles, status : {Undefined} \cup EventStatus,
     hasEquipments : {FALSE}, equipments : {<<>>}]
    \cup [title : ValidTitles, status : {Undefined} \cup EventStatus,
          hasEquipments : {TRUE}, equipments : EquipmentLists]
StockInputs == {<<>>} \cup {<<n>> : n \in -1..MaxStock}
DamagedBodies == [equipmentId : EquipmentIds, quantity : 0..MaxQty]
DamagedUpdateBodies ==
    [quantity : {<<>>} \cup {<<n>> : n \in 0..MaxQty},
     repairStatus : {Undefined} \cup RepairStatus]

NoTx == [pc |-> "idle"]
(* no cookie is stored for the site *)
NoCookie == [kind |-> "absent"]
(* the stock and reservation handlers read and write neither Users nor    *)
(* the cookie                                                              *)
NoAuth == users = << >> /\ jar = NoCookie
(* no request carries an image: no file is stored *)
NoUploads == uploads = {}
Idle == \A p \in Procs : tx[p].pc = "idle"

(* the model keeps stock + reserved units of an equipment within MaxStock *)
WithinBound(r) ==
    \A e \in DOMAIN r.equipments :
        r.equipments[e].stock + Reserved(r.equipmentEvent, e) <= MaxStock

NoRequest == [op |-> "none"]
NoSnapshot ==
    [equipments |-> << >>, events |-> << >>, equipmentEvent |-> {},
     damagedEquipment |-> << >>]

(* a request handled from start to end with no other request in between *)
Handle(request, r) ==
    /\ Idle
    /\ req = NoRequest
    /\ WithinBound(r)
    /\ equipments' = r.equipments
    /\ events' = r.events
    /\ equipmentEvent' = r.equipmentEvent
    /\ damagedEquipment' = r.damagedEquipment
    /\ req' = request
    /\ res' = r.status
    /\ pre' = Snapshot
    /\ UNCHANGED <<tx, auth, uploads>>

Init ==
    /\ equipments = << >>
    /\ events = << >>
    /\ equipmentEvent = {}
    /\ damagedEquipment = << >>
    /\ req = NoRequest
    /\ res = 0
    /\ pre = NoSnapshot
    /\ tx = [p \in Procs |-> NoTx]
    /\ NoAuth
    /\ NoUploads

RequestCreateEvent(Do(_, _), Bodies) ==
    /\ DOMAIN events # EventIds
    /\ \E body \in Bodies :
          Do([op |-> "EventsPOST", body |-> body,
                  newId |-> FreshId(EventIds, DOMAIN events)],
                 EventsPOST(body))

RequestUpdateEvent(Do(_, _), Bodies) ==
    \E id \in EventIds, body \in Bodies :
        Do([op |-> "EventPUT", id |-> id, body |-> body], EventPUT(id, body))

RequestDeleteEvent(Do(_, _)) ==
    \E id \in EventIds :
        Do([op |-> "EventDELETE", id |-> id], EventDELETE(id))

RequestBulkDeleteEvents(Do(_, _)) ==
    \E ids \in SUBSET EventIds :
        Do([op |-> "EventsDELETE", ids |-> ids], EventsDELETE(ids))

RequestCreateEquipment(Do(_, _)) ==
    /\ DOMAIN equipments # EquipmentIds
    /\ \E name \in Titles, stock \in StockInputs :
          Do([op |-> "EquipmentsPOST", name |-> name, stock |-> stock,
                  newId |-> FreshId(EquipmentIds, DOMAIN equipments)],
                 EquipmentsPOST(name, stock))

RequestUpdateEquipment(Do(_, _)) ==
    \E id \in EquipmentIds, name \in Titles, stock \in StockInputs :
        Do([op |-> "EquipmentPUT", id |-> id, name |-> name, stock |-> stock],
               EquipmentPUT(id, name, stock))

RequestDeleteEquipment(Do(_, _)) ==
    \E id \in EquipmentIds :
        Do([op |-> "EquipmentDELETE", id |-> id], EquipmentDELETE(id))

RequestReportDamage(Do(_, _)) ==
    /\ DOMAIN damagedEquipment # DamagedIds
    /\ \E body \in DamagedBodies :
          Do([op |-> "DamagedPOST", body |-> body,
                  newId |-> FreshId(DamagedIds, DOMAIN damagedEquipment)],
                 DamagedPOST(body))

RequestUpdateDamage(Do(_, _)) ==
    \E id \in DamagedIds, body \in DamagedUpdateBodies :
        Do([op |-> "DamagedPUT", id |-> id, body |-> body],
               DamagedPUT(id, body))

RequestDeleteDamage(Do(_, _)) ==
    \E id \in DamagedIds :
        Do([op |-> "DamagedDELETE", id |-> id], DamagedDELETE(id))

CreateEvent == req = NoRequest /\ RequestCreateEvent(Handle, EventBodies)
UpdateEvent == req = NoRequest /\ RequestUpdateEvent(Handle, EventUpdateBodies)
DeleteEvent == req = NoRequest /\ RequestDeleteEvent(Handle)

(* the body the events page builds from a listed event: "...event" has the *)
(* event's own fields and EquipmentEvent, no equipments field              *)
EventSpread(event) ==
    [title |-> event.title, status |-> event.status, hasEquipments |-> FALSE,
     equipments |-> <<>>, reportGenerated |-> event.reportGenerated]

(* the page's generateReport(event), offered for a completed event without *)
(* report: PUT /api/events/[id] with {...event, reportGenerated: true}     *)
GenerateReport ==
    /\ req = NoRequest
    /\ \E id \in DOMAIN events :
          /\ events[id].status = "completed"
          /\ ~events[id].reportGenerated
          /\ Handle([op |-> "generateReport", id |-> id],
                    EventPUT(id, [EventSpread(events[id])
                                    EXCEPT !.reportGenerated = TRUE]))
BulkDeleteEvents == req = NoRequest /\ RequestBulkDeleteEvents(Handle)
CreateEquipment == req = NoRequest /\ RequestCreateEquipment(Handle)
UpdateEquipment == req = NoRequest /\ RequestUpdateEquipment(Handle)
DeleteEquipment == req = NoRequest /\ RequestDeleteEquipment(Handle)
ReportDamage == req = NoRequest /\ RequestReportDamage(Handle)
UpdateDamage == req = NoRequest /\ RequestUpdateDamage(Handle)
DeleteDamage == req = NoRequest /\ RequestDeleteDamage(Handle)

(* the response is returned; the server is ready for the next request *)
Respond ==
    /\ Idle
    /\ req # NoRequest
    /\ req' = NoRequest
    /\ res' = 0
    /\ pre' = NoSnapshot
    /\ UNCHANGED <<db, tx, auth, uploads>>

Next ==
    \/ Respond
    \/ CreateEvent
    \/ UpdateEvent
    \/ DeleteEvent
    \/ BulkDeleteEvents
    \/ GenerateReport
    \/ CreateEquipment
    \/ UpdateEquipment
    \/ DeleteEquipment

(* the event and equipment routes, each request recorded with its outcome  *)
(* (the event handlers neither read nor write DamagedEquipment)            *)
Spec == Init /\ [][Next]_vars

NextDamage ==
    \/ Respond
    \/ CreateEquipment
    \/ UpdateEquipment
    \/ DeleteEquipment
    \/ ReportDamage
    \/ UpdateDamage
    \/ DeleteDamage

(* the damaged-equipment and equipment routes, each request recorded *)
SpecDamage == Init /\ [][NextDamage]_vars

(* a request handled from start to end, nothing recorded about it *)
Quiet(request, r) ==
    /\ Idle
    /\ WithinBound(r)
    /\ equipments' = r.equipments
    /\ events' = r.events
    /\ equipmentEvent' = r.equipmentEvent
    /\ damagedEquipment' = r.damagedEquipment
    /\ UNCHANGED <<hist, tx, auth, uploads>>

(* the event's status plays no part in the stock bookkeeping *)
StatusKept == {b \in EventUpdateBodies : b.status = Undefined}

AnyCreateEvent == RequestCreateEvent(Quiet, EventBodies)
AnyUpdateEvent == RequestUpdateEvent(Quiet, StatusKept)
AnyDeleteEvent == RequestDeleteEvent(Quiet)
AnyBulkDeleteEvents == RequestBulkDeleteEvents(Quiet)
AnyCreateEquipment == RequestCreateEquipment(Quiet)
AnyUpdateEquipment == RequestUpdateEquipment(Quiet)
AnyDeleteEquipment == RequestDeleteEquipment(Quiet)
AnyReportDamage == RequestReportDamage(Quiet)
AnyUpdateDamage == RequestUpdateDamage(Quiet)
AnyDeleteDamage == RequestDeleteDamage(Quiet)

NextAll ==
    \/ AnyCreateEvent
    \/ AnyUpdateEvent
    \/ AnyDeleteEvent
    \/ AnyBulkDeleteEvents
    \/ AnyCreateEquipment
    \/ AnyUpdateEquipment
    \/ AnyDeleteEquipment
    \/ AnyReportDamage
    \/ AnyUpdateDamage
    \/ AnyDeleteDamage

(* every route, the requests executed one at a time in any order *)
SpecAll == Init /\ [][NextAll]_vars

UpdateEventKeepingStatus ==
    req = NoRequest /\ RequestUpdateEvent(Handle, StatusKept)

NextIntegrity ==
    \/ Respond
    \/ CreateEvent
    \/ UpdateEventKeepingStatus
    \/ DeleteEvent
    \/ BulkDeleteEvents
    \/ CreateEquipment
    \/ UpdateEquipment
    \/ DeleteEquipment
    \/ ReportDamage
    \/ UpdateDamage
    \/ DeleteDamage

(* every route that writes the stock tables, each request recorded *)
SpecIntegrity == Init /\ [][NextIntegrity]_vars

(* ------------ interleaved transactions (READ COMMITTED) ------------ *)
(* Each connection p runs one request. Inside prisma.$transaction every    *)
(* awaited statement is one step. A statement reads the committed rows     *)
(* plus the transaction's own writes; an UPDATE takes the row's lock until *)
(* commit or rollback, and a statement that needs a row locked by another  *)
(* transaction waits. tx[p].delta holds p's uncommitted stock changes (its *)
(* domain is the Equipments rows p has locked), ins and del its            *)
(* uncommitted EquipmentEvent inserts and deletes.                         *)
Active(q) == tx[q].pc \notin {"idle", "done"}
NoDelta == [e \in {} |-> 0]

TxStart(kind, id, body, pc) ==
    [pc |-> pc, kind |-> kind, id |-> id, body |-> body, i |-> 1,
     old |-> <<>>, delta |-> NoDelta, ins |-> {}, del |-> {}, evlock |-> FALSE]

Done(t, status) ==
    [pc |-> "done", kind |-> t.kind, id |-> t.id, body |-> t.body,
     status |-> status]

(* what a statement of p reads *)
TxStock(p, e) ==
    equipments[e].stock + (IF e \in DOMAIN tx[p].delta THEN tx[p].delta[e] ELSE 0)
TxRows(p) == (equipmentEvent \ tx[p].del) \cup tx[p].ins

LockedByOther(p, e) ==
    \E q \in Procs \ {p} : Active(q) /\ e \in DOMAIN tx[q].delta
EventLockedByOther(p, v) ==
    \E q \in Procs \ {p} : Active(q) /\ tx[q].evlock /\ tx[q].id = v

(* tx.equipments.update({stock: {increment: n}}) of row e by p *)
AddDelta(t, e, n) ==
    [x \in DOMAIN t.delta \cup {e} |->
        (IF x \in DOMAIN t.delta THEN t.delta[x] ELSE 0) + (IF x = e THEN n ELSE 0)]

Perms(S) ==
    {q \in [1..Cardinality(S) -> S] : {q[k] : k \in 1..Cardinality(S)} = S}

ConcLists == SeqsUpTo(Items, MaxItems)
ConcBodies ==
    [title : ValidTitles, status : {Undefined}, hasEquipments : {TRUE},
     equipments : ConcLists]
    \cup [title : ValidTitles, status : {Undefined}, hasEquipments : {FALSE},
          equipments : {<<>>}]

Step(p, t) == tx' = [tx EXCEPT ![p] = t]

(* the row of equipments the next statement of p updates, if it updates one *)
NeedsRow(p) ==
    IF tx[p].pc = "restore" THEN {tx[p].old[tx[p].i].equipmentId}
    ELSE IF tx[p].pc = "decrement"
    THEN {tx[p].body.equipments[tx[p].i].equipmentId}
    ELSE {}

(* POST /api/events: tx.events.create *)
TxBeginCreate(p) ==
    /\ tx[p].pc = "idle"
    /\ \E body \in ConcBodies :
         LET used == DOMAIN events \cup {tx[q].id : q \in {r \in Procs : Active(r)}}
         IN /\ EventIds \ used # {}
            /\ Step(p, TxStart("POST", FreshId(EventIds, used), body,
                              IF body.hasEquipments /\ Len(body.equipments) > 0
                              THEN "check" ELSE "commit"))
    /\ UNCHANGED <<db, hist, auth, uploads>>

(* PUT /api/events/[id]: prisma.events.findUnique before the transaction *)
TxBeginUpdate(p) ==
    /\ tx[p].pc = "idle"
    /\ \E id \in EventIds, body \in ConcBodies :
         IF id \in DOMAIN events
         THEN Step(p, TxStart("PUT", id, body, "updateEvent"))
         ELSE Step(p, Done(TxStart("PUT", id, body, "idle"), 404))
    /\ UNCHANGED <<db, hist, auth, uploads>>

(* PUT: tx.events.update, which locks the event's row *)
TxUpdateEvent(p) ==
    /\ tx[p].pc = "updateEvent"
    /\ ~EventLockedByOther(p, tx[p].id)
    /\ IF tx[p].id \notin DOMAIN events
       THEN Step(p, Done(tx[p], 400))
       ELSE Step(p, [tx[p] EXCEPT !.evlock = TRUE,
                        !.pc = IF tx[p].body.hasEquipments THEN "findOld"
                               ELSE "commit"])
    /\ UNCHANGED <<db, hist, auth, uploads>>

(* PUT: tx.equipmentEvent.findMany({where: {eventId: id}}) *)
TxFindOld(p) ==
    /\ tx[p].pc = "findOld"
    /\ \E rows \in Perms(RowsOfEvent(TxRows(p), tx[p].id)) :
         Step(p, [tx[p] EXCEPT !.old = rows, !.pc = "deleteOld"])
    /\ UNCHANGED <<db, hist, auth, uploads>>

(* PUT: tx.equipmentEvent.deleteMany({where: {eventId: id}}) *)
TxDeleteOld(p) ==
    /\ tx[p].pc = "deleteOld"
    /\ Step(p, [tx[p] EXCEPT
                  !.del = RowsOfEvent(equipmentEvent, tx[p].id),
                  !.i = 1,
                  !.pc = IF Len(tx[p].old) > 0 THEN "restore"
                         ELSE IF Len(tx[p].body.equipments) > 0 THEN "check"
                         ELSE "commit"])
    /\ UNCHANGED <<db, hist, auth, uploads>>

(* the status the catch block answers when the transaction throws: PUT    *)
(* answers 400 to an Error, DELETE 500 to anything                         *)
Thrown(t) == IF t.kind = "DELETE" THEN 500 ELSE 400

(* PUT and DELETE: one round of the loop that increments the stock of an   *)
(* old row                                                                 *)
TxRestore(p) ==
    /\ tx[p].pc = "restore"
    /\ LET r == tx[p].old[tx[p].i]
       IN /\ ~LockedByOther(p, r.equipmentId)
          /\ IF r.equipmentId \notin DOMAIN equipments
             THEN Step(p, Done(tx[p], Thrown(tx[p])))
             ELSE Step(p, [tx[p] EXCEPT
                            !.delta = AddDelta(tx[p], r.equipmentId, r.quantity),
                            !.i = IF tx[p].i < Len(tx[p].old) THEN tx[p].i + 1 ELSE 1,
                            !.pc = IF tx[p].i < Len(tx[p].old) THEN "restore"
                                   ELSE IF tx[p].kind = "DELETE"
                                   THEN "deleteEvent"
                                   ELSE IF Len(tx[p].body.equipments) > 0
                                   THEN "check" ELSE "commit"])
    /\ UNCHANGED <<db, hist, auth, uploads>>

(* POST and PUT: one round of the stock-availability loop *)
TxCheck(p) ==
    /\ tx[p].pc = "check"
    /\ LET item == tx[p].body.equipments[tx[p].i]
           last == tx[p].i = Len(tx[p].body.equipments)
       IN IF \/ item.equipmentId \notin DOMAIN equipments
             \/ TxStock(p, item.equipmentId) < item.quantity
          THEN Step(p, Done(tx[p], 400))
          ELSE Step(p, [tx[p] EXCEPT !.i = IF last THEN 1 ELSE tx[p].i + 1,
                                     !.pc = IF last THEN "insert" ELSE "check"])
    /\ UNCHANGED <<db, hist, auth, uploads>>

(* POST and PUT: tx.equipmentEvent.createMany *)
TxInsert(p) ==
    /\ tx[p].pc = "insert"
    /\ IF UniqueIndexOK(TxRows(p), tx[p].id, tx[p].body.equipments)
       THEN Step(p, [tx[p] EXCEPT
                      !.ins = NewRows(tx[p].id, tx[p].body.equipments),
                      !.i = 1, !.pc = "decrement"])
       ELSE Step(p, Done(tx[p], 400))
    /\ UNCHANGED <<db, hist, auth, uploads>>

(* POST and PUT: one round of the loop that decrements the stock *)
TxDecrement(p) ==
    /\ tx[p].pc = "decrement"
    /\ LET item == tx[p].body.equipments[tx[p].i]
           last == tx[p].i = Len(tx[p].body.equipments)
       IN /\ ~LockedByOther(p, item.equipmentId)
          /\ Step(p, [tx[p] EXCEPT
                        !.delta = AddDelta(tx[p], item.equipmentId, -item.quantity),
                        !.i = IF last THEN 1 ELSE tx[p].i + 1,
                        !.pc = IF last THEN "commit" ELSE "decrement"])
    /\ UNCHANGED <<db, hist, auth, uploads>>

(* the transaction commits: its writes become the committed rows *)
TxCommit(p) ==
    /\ tx[p].pc = "commit"
    /\ equipments' =
          [e \in DOMAIN equipments |-> [stock |-> TxStock(p, e)]]
    /\ events' =
          IF tx[p].kind = "POST"
          THEN [v \in DOMAIN events \cup {tx[p].id} |->
                  IF v = tx[p].id
                  THEN [title |-> tx[p].body.title, status |-> "upcoming",
                        reportGenerated |-> FALSE]
                  ELSE events[v]]
          ELSE IF tx[p].kind = "DELETE"
          THEN [v \in DOMAIN events \ {tx[p].id} |-> events[v]]
          ELSE [events EXCEPT ![tx[p].id] =
                  [title |-> tx[p].body.title,
                   status |-> IF tx[p].body.status # Undefined
                              THEN tx[p].body.status ELSE @.status,
                   reportGenerated |-> @.reportGenerated]]
    /\ equipmentEvent' = TxRows(p)
    /\ Step(p, Done(tx[p], IF tx[p].kind = "POST" THEN 201 ELSE 200))
    /\ UNCHANGED <<damagedEquipment, hist, auth, uploads>>

(* the next statement of p needs a row that q has locked *)
WaitsFor(p, q) ==
    /\ Active(p)
    /\ Active(q)
    /\ \/ NeedsRow(p) \cap DOMAIN tx[q].delta # {}
       \/ /\ tx[p].pc \in {"updateEvent", "deleteEvent"}
          /\ tx[q].evlock
          /\ tx[q].id = tx[p].id

(* two transactions each wait for a row the other has locked: the database *)
(* aborts one of them and the handler's catch block answers                *)
TxDeadlock(p) ==
    /\ \E q \in Procs \ {p} : WaitsFor(p, q) /\ WaitsFor(q, p)
    /\ Step(p, Done(tx[p], Thrown(tx[p])))
    /\ UNCHANGED <<db, hist, auth, uploads>>

(* DELETE /api/events/[id]: prisma.events.findUnique before the transaction *)
NoBody ==
    [title |-> "", status |-> Undefined, hasEquipments |-> FALSE,
     equipments |-> <<>>]

TxBeginDelete(p) ==
    /\ tx[p].pc = "idle"
    /\ \E id \in EventIds :
         IF id \in DOMAIN events
         THEN Step(p, TxStart("DELETE", id, NoBody, "findRows"))
         ELSE Step(p, Done(TxStart("DELETE", id, NoBody, "idle"), 404))
    /\ UNCHANGED <<db, hist, auth, uploads>>

(* DELETE: tx.equipmentEvent.findMany({where: {eventId: id}}) *)
TxFindRows(p) ==
    /\ tx[p].pc = "findRows"
    /\ \E rows \in Perms(RowsOfEvent(TxRows(p), tx[p].id)) :
         Step(p, [tx[p] EXCEPT !.old = rows,
                               !.pc = IF Len(rows) > 0 THEN "restore"
                                      ELSE "deleteEvent"])
    /\ UNCHANGED <<db, hist, auth, uploads>>

(* DELETE: tx.events.delete, which locks the event's row and removes the   *)
(* event's EquipmentEvent rows by ON DELETE CASCADE; P2025 when the event  *)
(* is gone                                                                 *)
TxDeleteEvent(p) ==
    /\ tx[p].pc = "deleteEvent"
    /\ ~EventLockedByOther(p, tx[p].id)
    /\ IF tx[p].id \notin DOMAIN events
       THEN Step(p, Done(tx[p], Thrown(tx[p])))
       ELSE Step(p, [tx[p] EXCEPT
                      !.evlock = TRUE,
                      !.del = RowsOfEvent(equipmentEvent, tx[p].id),
                      !.pc = "commit"])
    /\ UNCHANGED <<db, hist, auth, uploads>>

(* the tables when the two requests arrive *)
InitConc ==
    /\ \E s1, s2 \in 0..MaxStock :
          equipments = [e \in EquipmentIds |->
                          [stock |-> IF e = "e1" THEN s1 ELSE s2]]
    /\ \E rows \in {{}} \cup {{[eventId |-> "v1", equipmentId |-> "e1",
                                  quantity |-> n]} : n \in 1..MaxQty} :
          /\ equipmentEvent = rows
          /\ events \in {<< >>, [v \in {"v1"} |->
                               [title |-> "a", status |-> "upcoming",
                                reportGenerated |-> FALSE]]}
          /\ rows # {} => events # << >>
    /\ damagedEquipment = << >>
    /\ req = NoRequest
    /\ res = 0
    /\ pre = Snapshot
    /\ tx = [p \in Procs |-> NoTx]
    /\ NoAuth
    /\ NoUploads

NextConc ==
    \E p \in Procs :
        \/ TxBeginCreate(p)
        \/ TxBeginUpdate(p)
        \/ TxUpdateEvent(p)
        \/ TxFindOld(p)
        \/ TxDeleteOld(p)
        \/ TxRestore(p)
        \/ TxCheck(p)
        \/ TxInsert(p)
        \/ TxDecrement(p)
        \/ TxCommit(p)
        \/ TxDeadlock(p)

(* two event create or update requests running at the same time *)
SpecConc == InitConc /\ [][NextConc]_vars

NextRace ==
    \E p \in Procs :
        \/ TxBeginUpdate(p)
        \/ TxUpdateEvent(p)
        \/ TxFindOld(p)
        \/ TxDeleteOld(p)
        \/ TxBeginDelete(p)
        \/ TxFindRows(p)
        \/ TxDeleteEvent(p)
        \/ TxRestore(p)
        \/ TxCheck(p)
        \/ TxInsert(p)
        \/ TxDecrement(p)
        \/ TxCommit(p)
        \/ TxDeadlock(p)

(* two event update or delete requests running at the same time *)
SpecRace == InitConc /\ [][NextRace]_vars

(* ----------------------- properties ----------------------- *)
RowsOf(ee, v) == RowsOfEvent(ee, v)
Distinct(items) ==
    \A i, j \in 1..Len(items) : i # j => items[i].equipmentId # items[j].equipmentId
Listed(items) == {items[i].equipmentId : i \in 1..Len(items)}
Others(f, ids) == [x \in DOMAIN f \ ids |-> f[x]]

(* C1: a successful POST /api/events with an equipments list commits the   *)
(* new event with exactly one reservation per listed item carrying the     *)
(* listed quantity, lowers each listed equipment's stock by exactly that   *)
(* item's quantity and leaves the stock of every other equipment unchanged *)
C1_CreateReservesListed ==
    (req.op = "EventsPOST" /\ res = 201 /\ req.body.hasEquipments) =>
        LET L == req.body.equipments
            v == req.newId
        IN /\ v \notin DOMAIN pre.events
           /\ v \in DOMAIN events
           /\ Others(events, {v}) = pre.events
           /\ Cardinality(RowsOf(equipmentEvent, v)) = Len(L)
           /\ \A i \in 1..Len(L) :
                 \E r \in RowsOf(equipmentEvent, v) :
                     r.equipmentId = L[i].equipmentId /\ r.quantity = L[i].quantity
           /\ equipmentEvent \ RowsOf(equipmentEvent, v) = pre.equipmentEvent
           /\ DOMAIN equipments = DOMAIN pre.equipments
           /\ \A i \in 1..Len(L) :
                 equipments[L[i].equipmentId].stock
                     = pre.equipments[L[i].equipmentId].stock - L[i].quantity
           /\ \A e \in DOMAIN equipments \ Listed(L) :
                 equipments[e] = pre.equipments[e]

C1_Witness ==
    /\ req.op = "EventsPOST" /\ res = 201 /\ req.body.hasEquipments
    /\ Len(req.body.equipments) = 2
    /\ req.body.equipments[1].quantity # req.body.equipments[2].quantity

(* C2: a POST /api/events with an item that names a missing equipment or   *)
(* asks for more than the equipment's stock is answered 400 and leaves     *)
(* every table as it was, items that passed the check included             *)
BadItem(item, eqs) ==
    \/ item.equipmentId \notin DOMAIN eqs
    \/ item.quantity > eqs[item.equipmentId].stock

C2_CreateAllOrNothing ==
    (/\ req.op = "EventsPOST" /\ req.body.hasEquipments
     /\ \E i \in 1..Len(req.body.equipments) :
           BadItem(req.body.equipments[i], pre.equipments))
        => (res = 400 /\ Snapshot = pre)

C2_Witness ==
    /\ req.op = "EventsPOST" /\ req.body.hasEquipments /\ res = 400
    /\ Len(req.body.equipments) = 2
    /\ ~BadItem(req.body.equipments[1], pre.equipments)
    /\ req.body.equipments[2].equipmentId \in DOMAIN pre.equipments
    /\ BadItem(req.body.equipments[2], pre.equipments)
    /\ Snapshot = pre

(* C3: a schema-valid PUT /api/events/[id] of an existing event with a     *)
(* list of distinct equipment succeeds exactly when every listed equipment *)
(* exists and its quantity is at most stock + the quantity this event      *)
(* already reserves of it; after success the event's reservations are the  *)
(* submitted list and every stock is old stock + previously reserved by    *)
(* this event - now reserved by this event                                 *)
Fits(id, item, s) ==
    /\ item.equipmentId \in DOMAIN s.equipments
    /\ item.quantity <= s.equipments[item.equipmentId].stock
                          + ReservedBy(s.equipmentEvent, id, item.equipmentId)

C3_UpdateReplacesReservations ==
    (/\ req.op = "EventPUT" /\ req.body.hasEquipments
     /\ req.id \in DOMAIN pre.events
     /\ req.body.title # ""
     /\ \A i \in 1..Len(req.body.equipments) : req.body.equipments[i].quantity >= 1
     /\ Distinct(req.body.equipments))
        => LET L == req.body.equipments
               id == req.id
           IN /\ res = 200 <=> \A i \in 1..Len(L) : Fits(id, L[i], pre)
              /\ res = 200 =>
                    /\ RowsOf(equipmentEvent, id) =
                          {[eventId |-> id, equipmentId |-> L[i].equipmentId,
                            quantity |-> L[i].quantity] : i \in 1..Len(L)}
                    /\ equipmentEvent \ RowsOf(equipmentEvent, id)
                          = pre.equipmentEvent \ RowsOf(pre.equipmentEvent, id)
                    /\ DOMAIN equipments = DOMAIN pre.equipments
                    /\ \A e \in DOMAIN equipments :
                          equipments[e].stock =
                              pre.equipments[e].stock
                              + ReservedBy(pre.equipmentEvent, id, e)
                              - ReservedBy(equipmentEvent, id, e)

(* the same quantity re-submitted at stock 0, another equipment detached *)
C3_Witness ==
    /\ req.op = "EventPUT" /\ res = 200 /\ req.body.hasEquipments
    /\ Len(req.body.equipments) = 1
    /\ Cardinality(RowsOf(pre.equipmentEvent, req.id)) = 2
    /\ LET item == req.body.equipments[1]
       IN /\ pre.equipments[item.equipmentId].stock = 0
          /\ ReservedBy(pre.equipmentEvent, req.id, item.equipmentId) = item.quantity

(* C4: DELETE /api/events/[id] of an existing event adds each reservation  *)
(* quantity back to its equipment's stock and removes the event with all   *)
(* of its reservations in one change; for an unknown id it answers 404 and *)
(* changes nothing                                                         *)
C4_DeleteRestoresStock ==
    req.op = "EventDELETE" =>
        IF req.id \in DOMAIN pre.events
        THEN /\ res = 200
             /\ events = Others(pre.events, {req.id})
             /\ equipmentEvent = pre.equipmentEvent \ RowsOf(pre.equipmentEvent, req.id)
             /\ DOMAIN equipments = DOMAIN pre.equipments
             /\ \A e \in DOMAIN equipments :
                   equipments[e].stock =
                       pre.equipments[e].stock
                       + ReservedBy(pre.equipmentEvent, req.id, e)
        ELSE res = 404 /\ Snapshot = pre

C4_Witness ==
    /\ req.op = "EventDELETE" /\ res = 200
    /\ Cardinality(RowsOf(pre.equipmentEvent, req.id)) = 2
    /\ \E v \in DOMAIN events : RowsOf(equipmentEvent, v) # {}

(* C5: the bulk DELETE /api/events?ids=... adds, for every deleted event,  *)
(* each reserved quantity back to the corresponding equipment's stock      *)
RECURSIVE ReservedByAll(_, _, _)
ReservedByAll(ee, ids, e) ==
    IF ids = {} THEN 0
    ELSE LET v == CHOOSE v \in ids : TRUE
         IN ReservedBy(ee, v, e) + ReservedByAll(ee, ids \ {v}, e)

C5_BulkDeleteRestoresStock ==
    (req.op = "EventsDELETE" /\ res = 200) =>
        /\ \A v \in req.ids : v \notin DOMAIN events /\ RowsOf(equipmentEvent, v) = {}
        /\ \A e \in DOMAIN pre.equipments :
              equipments[e].stock =
                  pre.equipments[e].stock + ReservedByAll(pre.equipmentEvent, req.ids, e)

(* C6: with the requests executed one at a time, no equipment ever has a   *)
(* stock below 0                                                           *)
C6_StockNeverNegative ==
    \A e \in DOMAIN equipments : equipments[e].stock >= 0

C6_Witness ==
    \E e \in DOMAIN equipments :
        /\ equipments[e].stock = 0
        /\ Reserved(equipmentEvent, e) = MaxStock
        /\ \E d \in DOMAIN damagedEquipment :
              /\ damagedEquipment[d].equipmentId = e
              /\ damagedEquipment[d].repairStatus = "completed"

(* C7: when two event create or update requests that reserve the same     *)
(* equipment run at the same time, no stock becomes negative, no equipment *)
(* has more units reserved than it had in stock and reserved before the    *)
(* two requests, and two creates whose combined demand exceeds the stock   *)
(* are not both accepted                                                   *)
Demand(t, e) ==
    SumQuantity({[k |-> i, quantity |-> t.body.equipments[i].quantity] :
                   i \in {j \in 1..Len(t.body.equipments) :
                            t.body.equipments[j].equipmentId = e}})

C7_ConcurrentReservationSafe ==
    /\ \A e \in DOMAIN equipments : equipments[e].stock >= 0
    /\ \A e \in DOMAIN equipments :
          Reserved(equipmentEvent, e)
              <= pre.equipments[e].stock + Reserved(pre.equipmentEvent, e)
    /\ (\A p \in Procs : tx[p].pc = "done" /\ tx[p].kind = "POST"
                           /\ tx[p].status = 201)
          => \A e \in DOMAIN equipments :
                 Demand(tx["p1"], e) + Demand(tx["p2"], e) <= pre.equipments[e].stock

(* C8: an event create, event update or single-event delete request,       *)
(* accepted or rejected, leaves stock + reserved units of every equipment  *)
(* as it was before the request                                            *)
C8_StockPlusReservedKept ==
    req.op \in {"EventsPOST", "EventPUT", "EventDELETE"} =>
        /\ DOMAIN equipments = DOMAIN pre.equipments
        /\ \A e \in DOMAIN equipments :
              equipments[e].stock + Reserved(equipmentEvent, e)
                  = pre.equipments[e].stock + Reserved(pre.equipmentEvent, e)

C8_Witness ==
    /\ req.op = "EventPUT" /\ res = 200
    /\ \E e \in DOMAIN equipments :
          /\ equipments[e].stock # pre.equipments[e].stock
          /\ Reserved(equipmentEvent, e) = 2
          /\ Cardinality({r \in equipmentEvent : r.equipmentId = e}) = 2

(* C9: a successful damage report of q units lowers the equipment's stock  *)
(* by q                                                                    *)
C9_ReportLowersStock ==
    (req.op = "DamagedPOST" /\ res = 201) =>
        equipments[req.body.equipmentId].stock
            = pre.equipments[req.body.equipmentId].stock - req.body.quantity

(* C10: a PUT /api/damaged-equipments/[id] that sets repairStatus to       *)
(* completed raises the equipment's stock by the quantity the record       *)
(* carried when the request arrived and sets repairedAt; any other PUT     *)
(* leaves every stock and the record's repairedAt unchanged                *)
C10_CompletionRestoresStock ==
    req.op = "DamagedPUT" =>
        IF res = 200 /\ req.body.repairStatus = "completed"
        THEN LET old == pre.damagedEquipment[req.id]
             IN /\ equipments =
                     [pre.equipments EXCEPT ![old.equipmentId].stock =
                                                @ + old.quantity]
                /\ damagedEquipment[req.id].repairStatus = "completed"
                /\ damagedEquipment[req.id].repairedAt
        ELSE /\ equipments = pre.equipments
             /\ \A d \in DOMAIN pre.damagedEquipment :
                   /\ d \in DOMAIN damagedEquipment
                   /\ damagedEquipment[d].repairedAt
                         = pre.damagedEquipment[d].repairedAt

C10_Witness ==
    /\ req.op = "DamagedPUT" /\ res = 200
    /\ req.body.repairStatus = "completed"
    /\ pre.damagedEquipment[req.id].repairStatus = "in_progress"
    /\ ~pre.damagedEquipment[req.id].repairedAt
    /\ pre.damagedEquipment[req.id].quantity = 2
    /\ equipments[pre.damagedEquipment[req.id].equipmentId].stock = 2

(* C11: a new damaged-equipment record starts as pending, and an accepted  *)
(* PUT leaves the record's repair status where it was or moves it one step *)
(* forward along pending, in_progress, completed                           *)
RepairStep(from, to) ==
    \/ from = to
    \/ from = "pending" /\ to = "in_progress"
    \/ from = "in_progress" /\ to = "completed"

C11_RepairStatusForward ==
    /\ (req.op = "DamagedPOST" /\ res = 201) =>
          damagedEquipment[req.newId].repairStatus = "pending"
    /\ (req.op = "DamagedPUT" /\ res = 200) =>
          RepairStep(pre.damagedEquipment[req.id].repairStatus,
                     damagedEquipment[req.id].repairStatus)

(* ------------ interleaved damaged-equipment requests ------------ *)
(* PUT and DELETE /api/damaged-equipments/[id] run their Prisma calls one  *)
(* awaited statement at a time, outside any transaction: each statement    *)
(* commits on its own and the statements of two requests interleave.       *)
(* Each connection p runs one request; tx[p].restored tells that p's       *)
(* equipments.update has been committed.                                   *)
RepairStart(kind, id, body, existing, pc) ==
    [pc |-> pc, kind |-> kind, id |-> id, body |-> body,
     existing |-> existing, restored |-> FALSE]

RepairDone(t, status, error) ==
    [pc |-> "done", kind |-> t.kind, id |-> t.id, body |-> t.body,
     existing |-> t.existing, restored |-> t.restored, status |-> status,
     error |-> error]

(* what a Prisma call throws: nothing, a PrismaClientKnownRequestError     *)
(* with its code, or an error of another class                             *)
NoError == "none"
OtherError == "Error"
PrismaCodes ==
    {"P2000", "P2001", "P2002", "P2003", "P2004", "P2011", "P2024", "P2025"}

(* handlePrismaError: <<code>> for a known request error, << >> for null *)
HandlePrismaError(error) ==
    IF error \in PrismaCodes THEN <<error>> ELSE << >>

(* the catch block of PUT /api/damaged-equipments/[id] *)
CatchPUT(error) ==
    LET prismaError == HandlePrismaError(error)
    IN IF prismaError # << >>
       THEN IF prismaError[1] = "P2002" THEN 409 ELSE 400
       ELSE 500

(* the catch block of DELETE /api/damaged-equipments/[id] *)
CatchDELETE(error) ==
    IF HandlePrismaError(error) # << >> THEN 400 ELSE 500

Catch(kind, error) ==
    IF kind = "PUT" THEN CatchPUT(error) ELSE CatchDELETE(error)

(* the errors a statement can meet whatever the tables hold: P2024, no     *)
(* connection from the pool in time, and a lost connection                 *)
Faults == {"P2024", OtherError}

NoRecord == [equipmentId |-> "none"]

(* PUT: safeParse, then prisma.damagedEquipment.findUnique *)
RepairBeginPut(p) ==
    /\ tx[p].pc = "idle"
    /\ \E id \in DamagedIds, body \in DamagedUpdateBodies :
         LET t == RepairStart("PUT", id, body, NoRecord, "idle")
         IN IF ~UpdateDamagedEquipmentSchema(body)
            THEN Step(p, RepairDone(t, 400, NoError))
            ELSE IF id \notin DOMAIN damagedEquipment
            THEN Step(p, RepairDone(t, 404, NoError))
            ELSE Step(p, RepairStart("PUT", id, body, damagedEquipment[id],
                                     IF body.repairStatus = "completed"
                                     THEN "restore" ELSE "update"))
    /\ UNCHANGED <<db, hist, auth, uploads>>

(* PUT: prisma.equipments.update({stock: {increment: existing.quantity}}); *)
(* P2025 when the equipment is gone                                        *)
RepairRestore(p) ==
    /\ tx[p].pc = "restore"
    /\ IF tx[p].existing.equipmentId \in DOMAIN equipments
       THEN /\ equipments' = CompleteRepair(equipments, tx[p].existing)
            /\ Step(p, [tx[p] EXCEPT !.pc = "update", !.restored = TRUE])
       ELSE /\ Step(p, RepairDone(tx[p], CatchPUT("P2025"), "P2025"))
            /\ UNCHANGED equipments
    /\ UNCHANGED <<events, equipmentEvent, damagedEquipment, hist, auth, uploads>>

(* the record PUT writes: updateData laid over the record as it is now *)
UpdatedRecord(now, body) ==
    [equipmentId |-> now.equipmentId,
     quantity |-> IF body.quantity # <<>> THEN body.quantity[1]
                  ELSE now.quantity,
     repairStatus |-> IF body.repairStatus # Undefined THEN body.repairStatus
                      ELSE now.repairStatus,
     repairedAt |-> IF body.repairStatus = "completed" THEN TRUE
                    ELSE now.repairedAt]

(* PUT: prisma.damagedEquipment.update; P2025 when the record is gone *)
RepairUpdate(p) ==
    /\ tx[p].pc = "update"
    /\ IF tx[p].id \in DOMAIN damagedEquipment
       THEN /\ damagedEquipment' =
                 [damagedEquipment EXCEPT ![tx[p].id] =
                      UpdatedRecord(@, tx[p].body)]
            /\ Step(p, RepairDone(tx[p], 200, NoError))
       ELSE /\ Step(p, RepairDone(tx[p], CatchPUT("P2025"), "P2025"))
            /\ UNCHANGED damagedEquipment
    /\ UNCHANGED <<equipments, events, equipmentEvent, hist, auth, uploads>>

(* the statement the request is about to run throws instead, and the       *)
(* handler's catch block answers                                           *)
RepairFails(p) ==
    /\ tx[p].pc \in {"restore", "update", "delete"}
    /\ \E error \in Faults :
          Step(p, RepairDone(tx[p], Catch(tx[p].kind, error), error))
    /\ UNCHANGED <<db, hist, auth, uploads>>

(* DELETE: prisma.damagedEquipment.findUnique *)
RepairBeginDelete(p) ==
    /\ tx[p].pc = "idle"
    /\ \E id \in DamagedIds :
         LET t == RepairStart("DELETE", id, <<>>, NoRecord, "delete")
         IN IF id \in DOMAIN damagedEquipment
            THEN Step(p, t)
            ELSE Step(p, RepairDone(t, 404, NoError))
    /\ UNCHANGED <<db, hist, auth, uploads>>

(* DELETE: prisma.damagedEquipment.delete; P2025 when the record is gone *)
RepairDelete(p) ==
    /\ tx[p].pc = "delete"
    /\ IF tx[p].id \in DOMAIN damagedEquipment
       THEN /\ damagedEquipment' =
                 [d \in DOMAIN damagedEquipment \ {tx[p].id} |->
                      damagedEquipment[d]]
            /\ Step(p, RepairDone(tx[p], 200, NoError))
       ELSE /\ Step(p, RepairDone(tx[p], CatchDELETE("P2025"), "P2025"))
            /\ UNCHANGED damagedEquipment
    /\ UNCHANGED <<equipments, events, equipmentEvent, hist, auth, uploads>>

(* both equipment exist and one damaged record has been reported *)
InitRepair ==
    /\ equipments \in [EquipmentIds -> [stock : 0..MaxStock]]
    /\ events = << >>
    /\ equipmentEvent = {}
    /\ \E e \in EquipmentIds, q \in 1..MaxQty, s \in RepairStatus :
          damagedEquipment =
              [d \in DamagedIds |->
                  [equipmentId |-> e, quantity |-> q, repairStatus |-> s,
                   repairedAt |-> (s = "completed")]]
    /\ req = NoRequest
    /\ res = 0
    /\ pre = Snapshot
    /\ tx = [p \in Procs |-> NoTx]
    /\ NoAuth
    /\ NoUploads

NextRepair ==
    \E p \in Procs :
        \/ RepairBeginPut(p)
        \/ RepairRestore(p)
        \/ RepairUpdate(p)
        \/ RepairFails(p)
        \/ RepairBeginDelete(p)
        \/ RepairDelete(p)

SpecRepair == InitRepair /\ [][NextRepair]_vars

(* C12: a PUT that has added the record's quantity to the stock has also   *)
(* written the record, in every outcome: no finished request has restored  *)
(* the stock without its record update being committed                     *)
C12_CompletionAtomic ==
    \A p \in Procs :
        (tx[p].pc = "done" /\ tx[p].kind = "PUT" /\ tx[p].restored) =>
            tx[p].status = 200

(* ---------------- authentication ---------------- *)
(* A pathname is a sequence of pieces whose concatenation is the path:     *)
(* <<"/", "login", "x">> is /loginx. startsWith is the prefix relation.    *)
Root == <<"/">>
LoginPath == <<"/", "login">>
RegisterPath == <<"/", "register">>
DashboardPath == <<"/", "dashboard">>
Pathnames ==
    {Root, LoginPath, RegisterPath, DashboardPath,
     <<"/", "login", "x">>, <<"/", "register", "/", "done">>,
     <<"/", "log">>, <<"/", "api/", "equipments">>}
NoPath == << >>

StartsWith(pathname, route) ==
    /\ Len(route) <= Len(pathname)
    /\ SubSeq(pathname, 1, Len(route)) = route

(* mutant: /login is not public *)
MutPublicRoutes == {RegisterPath}

publicRoutes == {LoginPath, RegisterPath}
authRoutes == {LoginPath, RegisterPath}

(* the value of process.env.JWT_SECRET, and a key it differs from *)
Secret == "JWT_SECRET"
OtherKey == "other"

UserIds == {1, 2}
Roles == {"admin", "user"}
Emails == {"", "a@x.id", "b@x.id"}
ValidEmails == Emails \ {""}
Passwords == {"", "pw1", "pw2"}

(* A cookie is absent, present with the empty value, or present with a     *)
(* signed token: who it names, the key it was signed with, and whether its *)
(* exp lies in the past.                                                   *)
EmptyCookie == [kind |-> "empty"]
Jwt(userId, role, key, expired) ==
    [kind |-> "jwt", userId |-> userId, role |-> role, key |-> key,
     expired |-> expired]

(* "request.cookies.get("jwt-access-token")?.value" is truthy *)
HasToken(cookie) == cookie.kind = "jwt"

(* jose's jwtVerify: the signature matches the key and exp is not reached *)
JwtVerify(token, secretKey) == token.key = secretKey /\ ~token.expired

(* verifyTokenInline: <<payload>>, or << >> for null *)
VerifyTokenInline(token) ==
    IF JwtVerify(token, Secret)
    THEN <<[userId |-> token.userId, role |-> token.role]>>
    ELSE << >>

Redirect(location, callbackUrl, deleteCookie) ==
    [kind |-> "redirect", location |-> location, callbackUrl |-> callbackUrl,
     deleteCookie |-> deleteCookie, userId |-> << >>, role |-> << >>]

(* NextResponse.next with the x-user-id and x-user-role request headers *)
PassOn(userId, role) ==
    [kind |-> "next", location |-> NoPath, callbackUrl |-> NoPath,
     deleteCookie |-> FALSE, userId |-> userId, role |-> role]

(* mutant: every path counts as public *)
MutIsPublicRoute(pathname) == StartsWith(pathname, Root)

IsPublicRoute(pathname) ==
    \E route \in publicRoutes : StartsWith(pathname, route)

IsAuthRoute(pathname) == \E route \in authRoutes : StartsWith(pathname, route)

Proxy(pathname, cookie) ==
    LET verified == IF HasToken(cookie) THEN VerifyTokenInline(cookie)
                    ELSE << >>
    IN IF pathname = Root
       THEN IF HasToken(cookie) /\ verified # << >>
            THEN Redirect(DashboardPath, NoPath, FALSE)
            ELSE Redirect(LoginPath, NoPath, FALSE)
       ELSE IF IsAuthRoute(pathname) /\ HasToken(cookie) /\ verified # << >>
       THEN Redirect(DashboardPath, NoPath, FALSE)
       ELSE IF ~IsPublicRoute(pathname) /\ ~HasToken(cookie)
       THEN Redirect(LoginPath, pathname, FALSE)
       ELSE IF ~IsPublicRoute(pathname) /\ HasToken(cookie)
       THEN IF verified = << >>
            THEN Redirect(LoginPath, NoPath, TRUE)
            ELSE PassOn(IF verified[1].userId # 0 THEN <<verified[1].userId>>
                        ELSE << >>,
                        IF verified[1].role \notin {Undefined, ""}
                        THEN <<verified[1].role>> ELSE << >>)
       ELSE PassOn(<< >>, << >>)

(* argon2: the stored hash of a password, and verify(data, hash) *)
Hash(data) == <<"argon2id", data>>

(* mutant: every password verifies *)
MutVerifyHash(data, hash) == hash[1] = "argon2id"

VerifyHash(data, hash) == hash = Hash(data)

(* LoginSchema: email a well-formed address, password non-empty *)
LoginSchema(email, password) == email \in ValidEmails /\ password # ""

LoginResponse(status, error, message, setCookie) ==
    [status |-> status, error |-> error, message |-> message,
     setCookie |-> setCookie]

(* POST /api/auth/login *)
LoginPOST(email, password) ==
    IF ~LoginSchema(email, password)
    THEN LoginResponse(400, "Validation failed", "Data tidak valid", NoCookie)
    ELSE
      \* prisma.users.findFirst({where: {email}}); Users.email is unique
      LET found == {u \in DOMAIN users : users[u].email = email}
      IN IF found = {}
         THEN LoginResponse(401, "Authentication failed",
                            "Email atau password salah", NoCookie)
         ELSE
           LET id == CHOOSE u \in found : TRUE
               user == users[id]
           IN IF ~VerifyHash(password, user.password)
              THEN LoginResponse(401, "Authentication failed",
                                 "Email atau password salah", NoCookie)
              ELSE LoginResponse(200, "", "Login berhasil",
                                 \* generateToken, then CookieSet
                                 Jwt(id, IF user.role = "" THEN Undefined
                                         ELSE user.role, Secret, FALSE))

(* the Users tables: registered users with distinct emails *)
UserTables ==
    UNION {{t \in [S -> [email : ValidEmails,
                         password : {Hash(w) : w \in Passwords \ {""}},
                         role : Roles]] :
              \A u, v \in S : u # v => t[u].email # t[v].email} :
           S \in SUBSET UserIds}

(* the cookies a client can make up without the secret *)
MadeUpCookies ==
    {EmptyCookie} \cup {Jwt(u, "admin", OtherKey, FALSE) : u \in UserIds}

InitAuth ==
    /\ equipments = << >>
    /\ events = << >>
    /\ equipmentEvent = {}
    /\ damagedEquipment = << >>
    /\ req = NoRequest
    /\ res = 0
    /\ pre = NoSnapshot
    /\ tx = [p \in Procs |-> NoTx]
    /\ users \in UserTables
    /\ jar = NoCookie
    /\ NoUploads

(* POST /api/auth/login; the client stores the cookie the response sets *)
Login ==
    \E email \in Emails, password \in Passwords :
        /\ req' = [op |-> "login", email |-> email, password |-> password,
                   cookie |-> jar]
        /\ res' = LoginPOST(email, password)
        /\ jar' = IF LoginPOST(email, password).setCookie # NoCookie
                  THEN LoginPOST(email, password).setCookie
                  ELSE jar
        /\ UNCHANGED <<db, pre, tx, users, uploads>>

(* POST /api/auth/logout: CookieDelete sets the cookie with maxAge 0 *)
Logout ==
    /\ req' = [op |-> "logout", cookie |-> jar]
    /\ res' = LoginResponse(200, "", "Logout Succesful", [kind |-> "delete"])
    /\ jar' = NoCookie
    /\ UNCHANGED <<db, pre, tx, users, uploads>>

(* a request for pathname that the guard evaluates; response.cookies.delete *)
(* makes the client drop the cookie                                         *)
Navigate ==
    \E pathname \in Pathnames :
        /\ req' = [op |-> "proxy", pathname |-> pathname, cookie |-> jar]
        /\ res' = Proxy(pathname, jar)
        /\ jar' = IF Proxy(pathname, jar).deleteCookie THEN NoCookie ELSE jar
        /\ UNCHANGED <<db, pre, tx, users, uploads>>

(* the client replaces or removes its cookie *)
Tamper ==
    /\ \E cookie \in MadeUpCookies \cup {NoCookie} : jar' = cookie
    /\ UNCHANGED <<db, hist, tx, users, uploads>>

(* the token's expiration time (1d) passes *)
Expire ==
    /\ jar.kind = "jwt"
    /\ ~jar.expired
    /\ jar' = [jar EXCEPT !.expired = TRUE]
    /\ UNCHANGED <<db, hist, tx, users, uploads>>

NextAuth ==
    \/ Login
    \/ Logout
    \/ Navigate
    \/ Tamper
    \/ Expire

SpecAuth == InitAuth /\ [][NextAuth]_vars

(* config.matcher: the guard runs for a path unless what follows its      *)
(* first slash starts with api/auth, _next/static, _next/image or          *)
(* favicon.ico (where the dot of the pattern stands for any character), or *)
(* ends with a dot and one of svg, png, jpg, jpeg, gif, webp, ico. A path  *)
(* that ends with such a suffix has it as its last piece.                  *)
ExemptPrefixes == {<<"api/", "auth">>, <<"_next/static">>, <<"_next/image">>}
AnyChar == {".", "x", "/"}
ExemptSuffixes == {".svg", ".png", ".jpg", ".jpeg", ".gif", ".webp", ".ico"}

Matcher(pathname) ==
    LET rest == Tail(pathname)
    IN /\ ~\E prefix \in ExemptPrefixes : StartsWith(rest, prefix)
       /\ ~(Len(rest) >= 3 /\ rest[1] = "favicon" /\ rest[2] \in AnyChar
                           /\ rest[3] = "ico")
       /\ ~(rest # << >> /\ rest[Len(rest)] \in ExemptSuffixes)

(* the route handlers under app/api: a collection, or one record of it     *)
(* with the [id] segment taken from the path                               *)
Collections == {"equipments", "events", "damaged-equipments"}
Slashes == {"/", "api/", "uploads/", "_next/static", "_next/image"}
NoHandler == << >>

RouteOf(pathname) ==
    IF Len(pathname) >= 3 /\ pathname[2] = "api/"
                          /\ pathname[3] \in Collections
    THEN IF Len(pathname) = 3 THEN <<pathname[3]>>
         ELSE IF /\ Len(pathname) >= 5
                 /\ pathname[4] = "/"
                 /\ \A i \in 5..Len(pathname) : pathname[i] \notin Slashes
         THEN <<pathname[3], "[id]">>
         ELSE NoHandler
    ELSE NoHandler

RequestedPaths ==
    {DashboardPath, LoginPath,
     <<"/", "api/", "equipments">>,
     <<"/", "api/", "equipments", "/", "e1">>,
     <<"/", "api/", "equipments", "/", "e1", ".png">>,
     <<"/", "api/", "events", "/", "v1">>,
     <<"/", "api/", "damaged-equipments", "/", "d1", ".ico">>,
     <<"/", "api/", "auth", "/", "login">>,
     <<"/", "_next/static", "/", "app.js">>,
     <<"/", "favicon", ".", "ico">>,
     <<"/", "uploads/", "f1", ".png">>}

(* a request reaches the guard when the matcher selects its path, and the  *)
(* route handler of the path when the guard is skipped or passes it on     *)
Serve(pathname, cookie) ==
    LET evaluated == Matcher(pathname)
        guard == IF evaluated THEN Proxy(pathname, cookie)
                 ELSE PassOn(<< >>, << >>)
    IN [evaluated |-> evaluated, guard |-> guard,
        handler |-> IF guard.kind = "next" THEN RouteOf(pathname)
                    ELSE NoHandler]

Fetch ==
    \E pathname \in RequestedPaths :
        /\ req' = [op |-> "fetch", pathname |-> pathname, cookie |-> jar]
        /\ res' = Serve(pathname, jar)
        /\ jar' = IF Serve(pathname, jar).guard.deleteCookie THEN NoCookie
                  ELSE jar
        /\ UNCHANGED <<db, pre, tx, users, uploads>>

(* verifyToken of lib/jwt: <<payload>>, or << >> for null *)
VerifyToken(token) ==
    IF JwtVerify(token, Secret)
    THEN <<[userId |-> token.userId, role |-> token.role]>>
    ELSE << >>

(* authenticateRequest: <<user>>, or << >> for null *)
AuthenticateRequest(cookie) ==
    IF ~HasToken(cookie) THEN << >>
    ELSE LET verified == VerifyToken(cookie)
         IN IF verified = << >> \/ verified[1].userId = 0 THEN << >>
            ELSE <<[userId |-> verified[1].userId, role |-> verified[1].role]>>

(* what a handler wrapped with withAdmin answers, and whether it was called *)
AdminResponse(status, message, invoked, user) ==
    [status |-> status, message |-> message, invoked |-> invoked,
     user |-> user]

(* mutant: the role is not looked at *)
MutWithAdmin(cookie) ==
    LET authed == AuthenticateRequest(cookie)
    IN IF authed = << >>
       THEN AdminResponse(401, "Unauthorized - Please login", FALSE, << >>)
       ELSE AdminResponse(200, "", TRUE, authed)

WithAdmin(cookie) ==
    LET authed == AuthenticateRequest(cookie)
    IN IF authed = << >>
       THEN AdminResponse(401, "Unauthorized - Please login", FALSE, << >>)
       ELSE IF authed[1].role # "admin"
       THEN AdminResponse(403, "Forbidden - Admin access required", FALSE,
                          << >>)
       ELSE AdminResponse(200, "", TRUE, authed)

(* a request to a route exported as withAdmin(handler) *)
AdminCall ==
    /\ req' = [op |-> "withAdmin", cookie |-> jar]
    /\ res' = WithAdmin(jar)
    /\ UNCHANGED <<db, pre, tx, auth, uploads>>

NextServe ==
    \/ Login
    \/ Logout
    \/ Fetch
    \/ AdminCall
    \/ Tamper
    \/ Expire

(* the requests a client sends to the server, guard and handlers together *)
SpecServe == InitAuth /\ [][NextServe]_vars

(* ---------------- profile ---------------- *)
Names == {"", "n"}
NoWas == {"081", "082"}
CurrentPasswords == {"", "pw1", "pw2"}
NewPasswords == {"", "pw1", "secret"}
MinPassword == 6

ProfileResponse(status, message, table) ==
    [status |-> status, message |-> message, users |-> table]

(* mutant: the length of the new password is not looked at *)
MutShortPassword(newPassword) == FALSE

ShortPassword(newPassword) == Len(newPassword) < MinPassword

(* PUT of the profile route; "" stands for a field the body leaves out *)
ProfilePUT(cookie, name, email, noWa, currentPassword, newPassword) ==
    IF ~HasToken(cookie) THEN ProfileResponse(401, "Unauthorized", users)
    ELSE
      LET decoded == VerifyToken(cookie)
      IN IF decoded = << >> \/ decoded[1].userId = 0
         THEN ProfileResponse(401, "Invalid token", users)
         ELSE IF name = "" \/ email = "" \/ noWa = ""
         THEN ProfileResponse(400,
                  "Nama, email, dan nomor WhatsApp wajib diisi", users)
         ELSE IF decoded[1].userId \notin DOMAIN users
         THEN ProfileResponse(404, "User tidak ditemukan", users)
         ELSE
           LET id == decoded[1].userId
               currentUser == users[id]
               updateData == [currentUser EXCEPT !.name = name,
                                 !.email = email, !.noWa = noWa]
           IN IF /\ email # currentUser.email
                 /\ \E u \in DOMAIN users : users[u].email = email /\ u # id
              THEN ProfileResponse(400, "Email sudah digunakan", users)
              ELSE IF /\ noWa # currentUser.noWa
                      /\ \E u \in DOMAIN users :
                            users[u].noWa = noWa /\ u # id
              THEN ProfileResponse(400, "Nomor WhatsApp sudah digunakan",
                                   users)
              ELSE IF newPassword # "" /\ currentPassword # ""
              THEN IF ~VerifyHash(currentPassword, currentUser.password)
                   THEN ProfileResponse(400, "Password lama tidak sesuai",
                                        users)
                   ELSE IF ShortPassword(newPassword)
                   THEN ProfileResponse(400,
                            "Password baru minimal 6 karakter", users)
                   ELSE ProfileResponse(200, "Profile berhasil diperbarui",
                            [users EXCEPT ![id] =
                               [updateData EXCEPT
                                  !.password = Hash(newPassword)]])
              ELSE ProfileResponse(200, "Profile berhasil diperbarui",
                                   [users EXCEPT ![id] = updateData])

(* the Users tables with every column the profile route reads: distinct    *)
(* emails and distinct WhatsApp numbers                                    *)
ProfileTables ==
    UNION {{t \in [S -> [name : {"n"}, email : ValidEmails, noWa : NoWas,
                         password : {Hash(w) : w \in Passwords \ {""}},
                         role : {"user"}]] :
              \A u, v \in S : u # v => /\ t[u].email # t[v].email
                                       /\ t[u].noWa # t[v].noWa} :
           S \in SUBSET UserIds}

(* the cookies a client can hold: none, a made-up one, or one issued by    *)
(* the login, possibly expired, possibly from before the table was seeded  *)
(* anew, so that its user need not exist                                   *)
HeldCookies ==
    {NoCookie} \cup MadeUpCookies
    \cup {Jwt(u, "user", Secret, e) : u \in UserIds, e \in BOOLEAN}

InitProfile ==
    /\ equipments = << >>
    /\ events = << >>
    /\ equipmentEvent = {}
    /\ damagedEquipment = << >>
    /\ req = NoRequest
    /\ res = 0
    /\ pre = NoSnapshot
    /\ tx = [p \in Procs |-> NoTx]
    /\ users \in ProfileTables
    /\ jar \in HeldCookies
    /\ NoUploads

UpdateProfile ==
    /\ req = NoRequest
    /\ \E name \in Names, email \in Emails, noWa \in NoWas \cup {""},
       currentPassword \in CurrentPasswords, newPassword \in NewPasswords :
        LET r == ProfilePUT(jar, name, email, noWa, currentPassword,
                            newPassword)
        IN /\ req' = [op |-> "profile", cookie |-> jar, name |-> name,
                      email |-> email, noWa |-> noWa,
                      currentPassword |-> currentPassword,
                      newPassword |-> newPassword, users |-> users]
           /\ res' = [status |-> r.status, message |-> r.message]
           /\ users' = r.users
           /\ UNCHANGED <<db, pre, tx, jar, uploads>>

NextProfile ==
    \/ Respond
    \/ UpdateProfile

SpecProfile == InitProfile /\ [][NextProfile]_vars

(* C13 as stated: a request for a path other than / that starts with       *)
(* neither /login nor /register is passed on only with a cookie that       *)
(* verifies; with no cookie it is redirected to /login with callbackUrl    *)
(* the requested path; with a cookie that fails verification it is         *)
(* redirected to /login and the cookie is deleted                          *)
Guarded(pathname) ==
    /\ pathname # Root
    /\ ~StartsWith(pathname, LoginPath)
    /\ ~StartsWith(pathname, RegisterPath)

Valid(cookie) ==
    cookie.kind = "jwt" /\ cookie.key = Secret /\ ~cookie.expired

C13_GuardAsStated ==
    (req.op = "proxy" /\ Guarded(req.pathname)) =>
        /\ res.kind = "next" <=> Valid(req.cookie)
        /\ req.cookie = NoCookie =>
              res = Redirect(LoginPath, req.pathname, FALSE)
        /\ (req.cookie # NoCookie /\ ~Valid(req.cookie)) =>
              /\ res.kind = "redirect" /\ res.location = LoginPath
              /\ res.deleteCookie

(* C13: a request for a path other than / that starts with neither /login  *)
(* nor /register is passed on only with a cookie that verifies; with no    *)
(* cookie or a cookie of empty value it is redirected to /login with       *)
(* callbackUrl the requested path and the cookie is left alone; with a     *)
(* non-empty cookie that fails verification it is redirected to /login     *)
(* and the cookie is deleted                                               *)
C13_GuardProtects ==
    (req.op = "proxy" /\ Guarded(req.pathname)) =>
        /\ res.kind = "next" <=> Valid(req.cookie)
        /\ req.cookie \in {NoCookie, EmptyCookie} =>
              res = Redirect(LoginPath, req.pathname, FALSE)
        /\ (req.cookie.kind = "jwt" /\ ~Valid(req.cookie)) =>
              res = Redirect(LoginPath, NoPath, TRUE)

C13_Witness ==
    /\ req.op = "proxy" /\ req.pathname = <<"/", "log">>
    /\ req.cookie.kind = "jwt" /\ req.cookie.key = Secret
    /\ req.cookie.expired
    /\ res.deleteCookie
    /\ jar = NoCookie

(* C14: POST login sets the jwt-access-token cookie exactly when the       *)
(* submitted email is the email of a user whose stored hash is the hash of *)
(* the submitted password; a well-formed request that fails for an unknown *)
(* email or for a wrong password gets one and the same 401 response, with  *)
(* no cookie                                                               *)
CredentialsOK(email, password) ==
    \E u \in DOMAIN users :
        users[u].email = email /\ users[u].password = Hash(password)

C15_SubmittedStockStored ==
    (req.op = "EquipmentsPOST" /\ req.name # ""
        /\ (req.stock # <<>> => req.stock[1] >= 0)) =>
        /\ res = 201
        /\ equipments[req.newId].stock =
              IF req.stock # <<>> THEN req.stock[1] ELSE 1

(* C16: a request that ends in a Prisma error is answered with the status  *)
(* the error-handling guide lists for the code: 409 for P2002, 404 for     *)
(* P2001 and P2025, 503 for P2024, 400 for P2000, P2003, P2004 and P2011   *)
DocumentedStatus(code) ==
    IF code = "P2002" THEN 409
    ELSE IF code \in {"P2001", "P2025"} THEN 404
    ELSE IF code = "P2024" THEN 503
    ELSE 400

C16_StatusFollowsTable ==
    \A p \in Procs :
        (tx[p].pc = "done" /\ tx[p].error \in PrismaCodes) =>
            tx[p].status = DocumentedStatus(tx[p].error)

(* C17: a rejected PUT /api/events/[id] (validation error, missing event,  *)
(* missing equipment, insufficient stock after the old reservations are    *)
(* returned) leaves every event, every reservation and every stock as it   *)
(* was before the request                                                  *)
C17_FailedUpdateChangesNothing ==
    (req.op = "EventPUT" /\ res # 200) => Snapshot = pre

C17_Witness ==
    /\ req.op = "EventPUT" /\ res = 400
    /\ EventSchema(req.body)
    /\ req.id \in DOMAIN events
    /\ req.body.status \notin {Undefined, events[req.id].status}
    /\ RowsOfEvent(equipmentEvent, req.id) # {}
    /\ \A i \in 1..Len(req.body.equipments) :
          req.body.equipments[i].equipmentId \in DOMAIN equipments
    /\ Snapshot = pre

(* C18: no two reservations share their event and their equipment, and an  *)
(* event create or update whose equipments list names an equipment twice   *)
(* is rejected with the events, reservations and stocks unchanged, also    *)
(* when each item alone passes the stock check                             *)
NamesTwice(items) ==
    \E i, j \in 1..Len(items) :
        i # j /\ items[i].equipmentId = items[j].equipmentId

C18_OneReservationPerPair ==
    /\ \A r, s \in equipmentEvent :
          (r.eventId = s.eventId /\ r.equipmentId = s.equipmentId) => r = s
    /\ (req.op \in {"EventsPOST", "EventPUT"} /\ req.body.hasEquipments
          /\ NamesTwice(req.body.equipments)) =>
          /\ res \notin {200, 201}
          /\ Snapshot = pre

C18_Witness ==
    /\ req.op = "EventPUT" /\ res = 400
    /\ req.id \in DOMAIN events
    /\ Len(req.body.equipments) = 2
    /\ NamesTwice(req.body.equipments)
    /\ RowsOfEvent(equipmentEvent, req.id) # {}
    /\ \A i \in 1..2 :
          LET item == req.body.equipments[i]
          IN /\ item.equipmentId \in DOMAIN equipments
             /\ item.quantity
                   <= equipments[item.equipmentId].stock
                        + ReservedBy(equipmentEvent, req.id, item.equipmentId)

(* C19: a PUT on a damaged-equipment record that is already completed     *)
(* leaves every equipment's stock unchanged                                *)
C19_RestoredAtMostOnce ==
    (req.op = "DamagedPUT" /\ req.id \in DOMAIN pre.damagedEquipment
        /\ pre.damagedEquipment[req.id].repairStatus = "completed") =>
        equipments = pre.equipments

(* C20: a damage report (quantity >= 1) for an equipment that does not     *)
(* exist is answered 404, one for more units than the equipment's stock is *)
(* answered 400, and both leave every table as it was; a report for at     *)
(* most the stock is answered 201 and adds exactly one record, for the     *)
(* reported equipment and quantity, with status pending                    *)
C20_ReportCheckedAgainstStock ==
    (req.op = "DamagedPOST" /\ req.body.quantity >= 1) =>
        LET e == req.body.equipmentId
            q == req.body.quantity
        IN IF e \notin DOMAIN pre.equipments
           THEN res = 404 /\ Snapshot = pre
           ELSE IF q > pre.equipments[e].stock
           THEN res = 400 /\ Snapshot = pre
           ELSE /\ res = 201
                /\ req.newId \notin DOMAIN pre.damagedEquipment
                /\ DOMAIN damagedEquipment
                      = DOMAIN pre.damagedEquipment \cup {req.newId}
                /\ \A d \in DOMAIN pre.damagedEquipment :
                      damagedEquipment[d] = pre.damagedEquipment[d]
                /\ damagedEquipment[req.newId] =
                      [equipmentId |-> e, quantity |-> q,
                       repairStatus |-> "pending", repairedAt |-> FALSE]

C20_Witness ==
    /\ req.op = "DamagedPOST" /\ res = 400
    /\ req.body.equipmentId \in DOMAIN equipments
    /\ equipments[req.body.equipmentId].stock = 1
    /\ req.body.quantity = 2
    /\ damagedEquipment = << >>

(* C21: DELETE /api/damaged-equipments/[id] of a record that is not yet    *)
(* completed adds the record's quantity to the stock of its equipment      *)
C21_DeleteReturnsStock ==
    (req.op = "DamagedDELETE" /\ res = 200
        /\ pre.damagedEquipment[req.id].repairStatus # "completed") =>
        LET old == pre.damagedEquipment[req.id]
        IN equipments[old.equipmentId].stock
               = pre.equipments[old.equipmentId].stock + old.quantity

(* C22: after generateReport has been answered 200 for a completed event,  *)
(* the event's reportGenerated flag is true in the database                *)
C22_ReportFlagStored ==
    (req.op = "generateReport" /\ res = 200) => events[req.id].reportGenerated

(* C23: a PUT /api/events/[id] whose body has no equipments field changes  *)
(* only the event's own row: every reservation, every stock and every      *)
(* other event stay as they were                                           *)
C23_NoEquipmentsFieldKeepsStock ==
    (req.op \in {"EventPUT", "generateReport"}
        /\ (req.op = "EventPUT" => ~req.body.hasEquipments)) =>
        /\ equipments = pre.equipments
        /\ equipmentEvent = pre.equipmentEvent
        /\ damagedEquipment = pre.damagedEquipment
        /\ DOMAIN events = DOMAIN pre.events
        /\ \A v \in DOMAIN events \ {req.id} : events[v] = pre.events[v]

C23_Witness ==
    /\ req.op = "EventPUT" /\ res = 200
    /\ ~req.body.hasEquipments
    /\ req.body.status = "ongoing"
    /\ pre.events[req.id].status = "upcoming"
    /\ events[req.id].status = "ongoing"
    /\ \E e \in DOMAIN equipments :
          ReservedBy(equipmentEvent, req.id, e) = MaxQty

(* C24: when an update and a delete, or two deletes, of one event have run *)
(* at the same time and both are answered, stock + reserved units of every *)
(* equipment is what it was before the two requests                        *)
SameEventRace ==
    /\ \A p \in Procs : tx[p].pc = "done"
    /\ tx["p1"].id = tx["p2"].id
    /\ {tx["p1"].kind, tx["p2"].kind} \in {{"PUT", "DELETE"}, {"DELETE"}}

C24_ConcurrentDeleteKeepsUnits ==
    SameEventRace =>
        \A e \in DOMAIN equipments :
            equipments[e].stock + Reserved(equipmentEvent, e)
                = pre.equipments[e].stock + Reserved(pre.equipmentEvent, e)

(* ---------------- equipment images ---------------- *)
(* Where images are followed an Equipments row is [stock, imageUrl]; the   *)
(* imageUrl is Null or the name of a file in public/uploads.               *)
Null == "null"
FileNames == {"f1", "f2", "f3"}
MaxSize == 5 * 1024 * 1024
allowedTypes == {"image/jpeg", "image/jpg", "image/png", "image/webp"}

(* the image form field: absent, or a file with its type and size *)
NoFile == [present |-> FALSE, type |-> "", size |-> 0]
ImageFiles ==
    {NoFile,
     [present |-> TRUE, type |-> "image/png", size |-> 1],
     [present |-> TRUE, type |-> "application/pdf", size |-> 1],
     [present |-> TRUE, type |-> "image/png", size |-> MaxSize + 1]}

(* "if (fs.existsSync(path)) fs.unlinkSync(path)" *)
Unlink(files, imageUrl) == files \ {imageUrl}

FormResult(status, eqs, files) ==
    [status |-> status, equipments |-> eqs, uploads |-> files]

(* PUT /api/equipments/[id] with its image and deleteImage form fields *)
EquipmentFormPUT(id, name, stock, imageFile, deleteImage) ==
    IF ~EquipmentSchema(name, stock) THEN FormResult(400, equipments, uploads)
    ELSE IF id \notin DOMAIN equipments
    THEN FormResult(404, equipments, uploads)
    ELSE
      LET existing == equipments[id]
          deletes == deleteImage /\ existing.imageUrl # Null
          \* "Handle delete old image"
          files1 == IF deletes THEN Unlink(uploads, existing.imageUrl)
                    ELSE uploads
          imageUrl1 == IF deletes THEN Null ELSE existing.imageUrl
          newStock == IF stock # <<>> THEN stock[1] ELSE existing.stock
      IN IF imageFile.present /\ imageFile.size > 0
         THEN IF imageFile.type \notin allowedTypes
              THEN FormResult(400, equipments, files1)
              ELSE IF imageFile.size > MaxSize
              THEN FormResult(400, equipments, files1)
              ELSE
                LET \* "Delete old image if exists"
                    files2 == IF existing.imageUrl # Null
                              THEN Unlink(files1, existing.imageUrl)
                              ELSE files1
                    \* `${Date.now()}-${imageFile.name}`: a name not in use
                    fileName ==
                        FreshId(FileNames,
                                uploads \cup {equipments[e].imageUrl :
                                                e \in DOMAIN equipments})
                IN FormResult(200,
                              [equipments EXCEPT ![id] =
                                  [stock |-> newStock, imageUrl |-> fileName]],
                              files2 \cup {fileName})
         ELSE FormResult(200,
                         [equipments EXCEPT ![id] =
                             [stock |-> newStock, imageUrl |-> imageUrl1]],
                         files1)

(* both equipment exist; e1 has an uploaded image or none, e2 has none *)
InitImage ==
    /\ \E s \in 0..MaxStock, url \in {Null, "f1"} :
          /\ equipments =
                [e \in EquipmentIds |->
                    [stock |-> s, imageUrl |-> IF e = "e1" THEN url ELSE Null]]
          /\ uploads = {url} \ {Null}
    /\ events = << >>
    /\ equipmentEvent = {}
    /\ damagedEquipment = << >>
    /\ req = NoRequest
    /\ res = 0
    /\ pre = NoSnapshot
    /\ tx = [p \in Procs |-> NoTx]
    /\ NoAuth

UpdateEquipmentForm ==
    /\ req = NoRequest
    /\ FileNames \ (uploads \cup {equipments[e].imageUrl :
                                    e \in DOMAIN equipments}) # {}
    /\ \E id \in EquipmentIds \cup {"e3"}, name \in Titles,
          stock \in StockInputs, imageFile \in ImageFiles,
          deleteImage \in BOOLEAN :
          LET r == EquipmentFormPUT(id, name, stock, imageFile, deleteImage)
          IN /\ equipments' = r.equipments
             /\ uploads' = r.uploads
             /\ req' = [op |-> "EquipmentFormPUT", id |-> id, name |-> name,
                        stock |-> stock, imageFile |-> imageFile,
                        deleteImage |-> deleteImage, uploads |-> uploads]
             /\ res' = r.status
             /\ pre' = Snapshot
    /\ UNCHANGED <<events, equipmentEvent, damagedEquipment, tx, auth>>

NextImage ==
    \/ Respond
    \/ UpdateEquipmentForm

SpecImage == InitImage /\ [][NextImage]_vars

(* C25: a PUT /api/equipments/[id] answered 400 or 404 leaves every        *)
(* Equipments row and every stored image file as before the request       *)
C25_RejectedUpdateChangesNothing ==
    (req.op = "EquipmentFormPUT" /\ res \in {400, 404}) =>
        /\ equipments = pre.equipments
        /\ uploads = req.uploads

(* C26: every reservation refers to an existing event and an existing      *)
(* equipment and every damaged record to an existing equipment; after an   *)
(* accepted delete of events or of an equipment no reservation and no      *)
(* damaged record refers to what was deleted                               *)
C26_ReferentialIntegrity ==
    /\ \A r \in equipmentEvent :
          r.eventId \in DOMAIN events /\ r.equipmentId \in DOMAIN equipments
    /\ \A d \in DOMAIN damagedEquipment :
          damagedEquipment[d].equipmentId \in DOMAIN equipments
    /\ (req.op = "EventDELETE" /\ res = 200) =>
          /\ req.id \notin DOMAIN events
          /\ RowsOfEvent(equipmentEvent, req.id) = {}
    /\ (req.op = "EventsDELETE" /\ res = 200) =>
          \A v \in req.ids :
              v \notin DOMAIN events /\ RowsOfEvent(equipmentEvent, v) = {}
    /\ (req.op = "EquipmentDELETE" /\ res = 200) =>
          /\ req.id \notin DOMAIN equipments
          /\ \A r \in equipmentEvent : r.equipmentId # req.id
          /\ \A d \in DOMAIN damagedEquipment :
                damagedEquipment[d].equipmentId # req.id

C26_Witness ==
    /\ req.op = "EquipmentDELETE" /\ res = 200
    /\ \E r \in pre.equipmentEvent : r.equipmentId = req.id
    /\ \E d \in DOMAIN pre.damagedEquipment :
          pre.damagedEquipment[d].equipmentId = req.id
    /\ equipmentEvent # {}

(* C27: a request for /api/equipments, /api/events or                      *)
(* /api/damaged-equipments, or a path below one of them, is evaluated by   *)
(* the guard, and its route handler is reached only with a cookie that     *)
(* verifies                                                                *)
C27_GuardCoversApi ==
    (/\ req.op = "fetch"
     /\ Len(req.pathname) >= 3
     /\ req.pathname[2] = "api/"
     /\ req.pathname[3] \in Collections) =>
        /\ res.evaluated
        /\ res.handler # NoHandler => Valid(req.cookie)

(* C28: the guard redirects / and, with a cookie that verifies, /login and *)
(* /register to /dashboard, and everything else it redirects to /login;    *)
(* the target of a redirect, requested with the cookie the redirect leaves *)
(* behind, is passed on, so a navigation settles after at most one redirect *)
CookieAfter(cookie, response) ==
    IF response.deleteCookie THEN NoCookie ELSE cookie

C28_NoRedirectLoop ==
    (req.op = "proxy" /\ res.kind = "redirect") =>
        /\ res.location =
              IF Valid(req.cookie) /\ ~Guarded(req.pathname)
              THEN DashboardPath ELSE LoginPath
        /\ Proxy(res.location, CookieAfter(req.cookie, res)).kind = "next"

C28_Witness ==
    /\ req.op = "proxy"
    /\ res.kind = "redirect"
    /\ req.cookie.kind = "jwt"
    /\ ~Valid(req.cookie)
    /\ req.pathname = Root
    /\ ~res.deleteCookie

(* C29: a handler wrapped with withAdmin is called only for a cookie that  *)
(* verifies, carries a userId and has role admin, and is then given that   *)
(* user; without such a token the answer is 401, with a verified token of  *)
(* another role it is 403, and in both the handler is not called           *)
C29_AdminOnly ==
    req.op = "withAdmin" =>
        /\ res.invoked <=>
              /\ Valid(req.cookie)
              /\ req.cookie.userId # 0
              /\ req.cookie.role = "admin"
        /\ res.invoked =>
              /\ res.status = 200
              /\ res.user = <<[userId |-> req.cookie.userId, role |-> "admin"]>>
        /\ ~Valid(req.cookie) => res.status = 401
        /\ (Valid(req.cookie) /\ req.cookie.role # "admin") =>
              res.status = 403
        /\ res.status \in {401, 403} => ~res.invoked

C29_Witness ==
    /\ req.op = "withAdmin"
    /\ Valid(req.cookie)
    /\ req.cookie.role = "user"
    /\ res.status = 403

(* C30: the profile update changes a user's password hash only for the     *)
(* user of a verified token, with a currentPassword that verifies against  *)
(* the stored hash and a newPassword of at least 6 characters; a request   *)
(* answered 400, 401 or 404 leaves every user row as it was                *)
C30_PasswordChangeNeedsCurrent ==
    req.op = "profile" =>
        /\ DOMAIN users = DOMAIN req.users
        /\ \A u \in DOMAIN req.users :
              users[u].password # req.users[u].password =>
                  /\ Valid(req.cookie)
                  /\ u = req.cookie.userId
                  /\ VerifyHash(req.currentPassword, req.users[u].password)
                  /\ Len(req.newPassword) >= 6
                  /\ users[u].password = Hash(req.newPassword)
                  /\ res.status = 200
        /\ \A u \in DOMAIN req.users :
              users[u] # req.users[u] =>
                  Valid(req.cookie) /\ u = req.cookie.userId
        /\ res.status \in {400, 401, 404} => users = req.users

C30_Witness ==
    /\ req.op = "profile"
    /\ res.status = 200
    /\ \E u \in DOMAIN users : users[u].password # req.users[u].password
====
